---- MODULE Spec2Model ----
(***************************************************************************)
(* Model of application.py: the OAuth2 token life cycle of                 *)
(* PokemonGoFriendsBot (authorize, exchange, refresh on expiry) composed   *)
(* with the post / sleep / delete / sleep loop of run().                   *)
(*                                                                         *)
(* Time is counted in whole seconds.  Every HTTP call is one step whose    *)
(* response is chosen from a small set of responses the endpoints can      *)
(* give.  An exception that leaves a function is the return value "raise". *)
(* Optional values are sequences of length 0 (None) or 1.                  *)
(***************************************************************************)
EXTENDS Integers, Sequences, FiniteSets, TLC

VARIABLES
    pc,                     \* position of the program in start() / run()
    now,                    \* datetime.now(), in seconds
    token,                  \* self.token : Optional[Token]
    last_comment_fullname,  \* self.last_comment_fullname : Optional[str]
    code,                   \* the local `code` of start()
    browser,                \* URLs handed to webbrowser.open, in order
    log,                    \* the calls made so far, with their results
    result                  \* the value of the last Token method applied alone

vars == <<pc, now, token, last_comment_fullname, code, browser, log, result>>

----------------------------------------------------------------------------
(* Bounds of the model *)

MaxLog == 12         \* no handler starts once the log holds this many calls
MaxElapsed == 6      \* width of the time window of the Token specification

----------------------------------------------------------------------------
(* Values *)

None == << >>
Some(v) == <<v>>

\* Python truthiness of an Optional[str]
Truthy(o) == o # None /\ o[1] # ""

\* a JSON / Python number n, and the JSON / Python string that spells n
PyInt(n) == [type |-> "int", n |-> n]
PyStr(n) == [type |-> "str", n |-> n]

\* int(v): an int stays, a string of digits is parsed
int(v) == [type |-> "int", n |-> v.n]

REDIRECT_URI == "https://www.reddit.com/r/PokemonGoFriends"

SleepAfterPost == 60 * 15 * 1
SleepAfterDelete == 15 * 1 * 1
ExpiryMargin == 60

\* the moment the class body of Token is executed (module load)
Token_issued_at == 0

----------------------------------------------------------------------------
(* Token *)

\* Token(access_token, expires_in, scope, refresh_token): token_type and
\* issued_at take the defaults of the class
Token(access_token, expires_in, scope, refresh_token) ==
    [access_token |-> access_token, expires_in |-> expires_in, scope |-> scope,
     refresh_token |-> refresh_token, token_type |-> "bearer",
     issued_at |-> Token_issued_at]

\* Token.__str__
Token_str(t) == t.token_type \o " " \o t.access_token

\* is_expired raises TypeError when expires_in is not a number
is_expired_raises(t) == t.expires_in.type # "int"

is_expired_late(t, n) == (n - t.issued_at) > t.expires_in.n - ExpiryMargin

\* Token.is_expired
is_expired(t, n) == (n - t.issued_at) >= t.expires_in.n - ExpiryMargin

HasKey(obj, k) == k \in DOMAIN obj

refresh_takes_refresh_token(t, response, n) ==
    IF ~HasKey(response, "access_token") THEN [token |-> t, ret |-> "raise"]
    ELSE IF ~HasKey(response, "expires_in")
    THEN [token |-> [t EXCEPT !.access_token = response.access_token],
          ret |-> "raise"]
    ELSE IF ~HasKey(response, "scope")
    THEN [token |-> [t EXCEPT !.access_token = response.access_token,
                              !.expires_in = response.expires_in],
          ret |-> "raise"]
    ELSE [token |-> [t EXCEPT !.access_token = response.access_token,
                              !.expires_in = response.expires_in,
                              !.scope = response.scope,
                              !.refresh_token =
                                  IF HasKey(response, "refresh_token")
                                  THEN response.refresh_token ELSE @,
                              !.issued_at = n],
          ret |-> "None"]

\* Token.refresh: three assignments from the response, each of which raises
\* KeyError when the key is missing, then issued_at
refresh(t, response, n) ==
    IF ~HasKey(response, "access_token") THEN [token |-> t, ret |-> "raise"]
    ELSE IF ~HasKey(response, "expires_in")
    THEN [token |-> [t EXCEPT !.access_token = response.access_token],
          ret |-> "raise"]
    ELSE IF ~HasKey(response, "scope")
    THEN [token |-> [t EXCEPT !.access_token = response.access_token,
                              !.expires_in = response.expires_in],
          ret |-> "raise"]
    ELSE [token |-> [t EXCEPT !.access_token = response.access_token,
                              !.expires_in = response.expires_in,
                              !.scope = response.scope,
                              !.issued_at = n],
          ret |-> "None"]

----------------------------------------------------------------------------
(* Responses of the endpoints.  A response whose body parses as JSON has  *)
(* the decoded object in its field json; r.json() raises on the others.   *)

JsonOk(r) == HasKey(r, "json")

AuthorizeUrl == "https://www.reddit.com/api/v1/authorize?client_id=id"
LoginUrl == "https://www.reddit.com/login/?dest=authorize"

AuthorizeResponses ==
    { [status |-> 200, url |-> AuthorizeUrl],
      [status |-> 200, url |-> LoginUrl],
      [status |-> 403, url |-> AuthorizeUrl] }

TokenResponses ==
    { [status |-> 200,
       json |-> [access_token |-> "A1", expires_in |-> PyInt(3600),
                 scope |-> "edit submit", refresh_token |-> "R1"]],
      [status |-> 200,
       json |-> [access_token |-> "A2", expires_in |-> PyInt(975),
                 scope |-> "edit submit", refresh_token |-> "R2"]],
      [status |-> 200,
       json |-> [access_token |-> "A3", expires_in |-> PyInt(976),
                 scope |-> "edit"]],
      [status |-> 200,
       json |-> [access_token |-> "A2", expires_in |-> PyStr(3600),
                 scope |-> "edit submit", refresh_token |-> "R2"]],
      [status |-> 200, json |-> [error |-> "invalid_grant"]],
      [status |-> 200, json |-> [access_token |-> "A3"]],
      [status |-> 200],
      [status |-> 401, json |-> [error |-> "401"]] }

PostResponses ==
    { [status |-> 200, json |-> [name |-> "t1_a"]],
      [status |-> 200, json |-> [name |-> "t1_b"]],
      [status |-> 200, json |-> [name |-> ""]],
      [status |-> 200, json |-> [json |-> "errors"]],
      [status |-> 200],
      [status |-> 500] }

DeleteResponses == { [status |-> 200], [status |-> 500] }

Codes == { "c" }

\* how long the operator takes to paste the code
PromptDelays == { 0, 4000 }

----------------------------------------------------------------------------
(* PokemonGoFriendsBot.  Every function is an operator from the state it  *)
(* reads, the responses it receives and the time to the state it leaves,  *)
(* its return value ("True", "False", "None" or "raise") and the calls it *)
(* made (sent).                                                            *)

authorize_application_always_opens(r, n) ==
    LET ret == IF r.status = 200 THEN "True" ELSE "False"
    IN  [ret |-> ret,
         opened |-> <<r.url>>,
         sent |-> <<[kind |-> "authorize", at |-> n, response |-> r,
                     ret |-> ret]>>]

\* authorize_application
authorize_application(r, n) ==
    LET ret == IF r.status = 200 THEN "True" ELSE "False"
    IN  [ret |-> ret,
         opened |-> IF r.status = 200 THEN <<r.url>> ELSE << >>,
         sent |-> <<[kind |-> "authorize", at |-> n, response |-> r,
                     ret |-> ret]>>]

\* the form data of the token request
token_request_data(tok, c, is_refresh) ==
    IF is_refresh
    THEN [grant_type |-> "refresh_token",
          refresh_token |-> tok[1].refresh_token]
    ELSE [grant_type |-> "authorization_code", code |-> c,
          redirect_uri |-> REDIRECT_URI]

token_response_restamps_on_failure(tok, is_refresh, r, n) ==
    LET failed == IF tok = None THEN tok
                  ELSE Some([tok[1] EXCEPT !.issued_at = n])
    IN
    IF r.status = 200
    THEN IF ~JsonOk(r) THEN [token |-> failed, ret |-> "False"]
         ELSE IF is_refresh
         THEN LET f == refresh(tok[1], r.json, n)
              IN  [token |-> Some(f.token),
                   ret |-> IF f.ret = "raise" THEN "raise" ELSE "True"]
         ELSE IF /\ HasKey(r.json, "access_token")
                 /\ HasKey(r.json, "expires_in")
                 /\ HasKey(r.json, "scope")
                 /\ HasKey(r.json, "refresh_token")
         THEN [token |-> Some(Token(r.json.access_token,
                                    int(r.json.expires_in),
                                    r.json.scope, r.json.refresh_token)),
               ret |-> "True"]
         ELSE [token |-> tok, ret |-> "raise"]
    ELSE [token |-> failed, ret |-> "False"]

\* what authenticate_session does with the response r: the test of the
\* status, r.json(), then Token.refresh or the construction of a Token
token_response(tok, is_refresh, r, n) ==
    IF r.status = 200
    THEN IF ~JsonOk(r) THEN [token |-> tok, ret |-> "False"]
         ELSE IF is_refresh
         THEN LET f == refresh(tok[1], r.json, n)
              IN  [token |-> Some(f.token),
                   ret |-> IF f.ret = "raise" THEN "raise" ELSE "True"]
         ELSE IF /\ HasKey(r.json, "access_token")
                 /\ HasKey(r.json, "expires_in")
                 /\ HasKey(r.json, "scope")
                 /\ HasKey(r.json, "refresh_token")
         THEN [token |-> Some(Token(r.json.access_token,
                                    int(r.json.expires_in),
                                    r.json.scope, r.json.refresh_token)),
               ret |-> "True"]
         ELSE [token |-> tok, ret |-> "raise"]
    ELSE [token |-> tok, ret |-> "False"]

\* authenticate_session(code, is_refresh); reading self.token.refresh_token
\* of an absent token raises before any request is sent
authenticate_session(tok, c, is_refresh, r, n) ==
    IF is_refresh /\ tok = None
    THEN [token |-> tok, ret |-> "raise", sent |-> << >>]
    ELSE LET out == token_response(tok, is_refresh, r, n)
         IN  [token |-> out.token, ret |-> out.ret,
              sent |-> <<[kind |-> "token", at |-> n,
                          data |-> token_request_data(tok, c, is_refresh),
                          response |-> r, ret |-> out.ret]>>]

\* the record of one evaluation of self.token.is_expired
GuardEntry(n, tok, v) ==
    [kind |-> "guard", at |-> n, token |-> tok[1], expired |-> v]

check_token_expiration_escalates(tok, rt, n) ==
    IF tok = None THEN [token |-> tok, ret |-> "raise", sent |-> << >>]
    ELSE IF is_expired_raises(tok[1])
    THEN [token |-> tok, ret |-> "raise", sent |-> <<GuardEntry(n, tok, "raise")>>]
    ELSE IF ~is_expired(tok[1], n)
    THEN [token |-> tok, ret |-> "None", sent |-> <<GuardEntry(n, tok, "False")>>]
    ELSE LET a == authenticate_session(tok, None, TRUE, rt, n)
         IN  [token |-> a.token,
              ret |-> IF a.ret = "True" THEN "None" ELSE "raise",
              sent |-> <<GuardEntry(n, tok, "True")>> \o a.sent]

check_token_expiration_inverted(tok, rt, n) ==
    IF tok = None THEN [token |-> tok, ret |-> "raise", sent |-> << >>]
    ELSE IF is_expired_raises(tok[1])
    THEN [token |-> tok, ret |-> "raise", sent |-> <<GuardEntry(n, tok, "raise")>>]
    ELSE IF is_expired(tok[1], n)
    THEN [token |-> tok, ret |-> "None", sent |-> <<GuardEntry(n, tok, "True")>>]
    ELSE LET a == authenticate_session(tok, None, TRUE, rt, n)
         IN  [token |-> a.token,
              ret |-> IF a.ret = "raise" THEN "raise" ELSE "None",
              sent |-> <<GuardEntry(n, tok, "False")>> \o a.sent]

\* check_token_expiration: the value of authenticate_session is dropped
check_token_expiration(tok, rt, n) ==
    IF tok = None THEN [token |-> tok, ret |-> "raise", sent |-> << >>]
    ELSE IF is_expired_raises(tok[1])
    THEN [token |-> tok, ret |-> "raise", sent |-> <<GuardEntry(n, tok, "raise")>>]
    ELSE IF ~is_expired(tok[1], n)
    THEN [token |-> tok, ret |-> "None", sent |-> <<GuardEntry(n, tok, "False")>>]
    ELSE LET a == authenticate_session(tok, None, TRUE, rt, n)
         IN  [token |-> a.token,
              ret |-> IF a.ret = "raise" THEN "raise" ELSE "None",
              sent |-> <<GuardEntry(n, tok, "True")>> \o a.sent]

post_comment_stores_first_only(tok, fullname, rt, rp, n) ==
    LET g == check_token_expiration(tok, rt, n)
    IN  IF g.ret = "raise"
        THEN [token |-> g.token, last_comment_fullname |-> fullname,
              ret |-> "raise", sent |-> g.sent]
        ELSE LET ret == IF rp.status = 200
                        THEN IF ~JsonOk(rp) THEN "False"
                             ELSE IF HasKey(rp.json, "name") THEN "True"
                             ELSE "raise"
                        ELSE "False"
             IN  [token |-> g.token,
                  last_comment_fullname |->
                      IF ret = "True" /\ ~Truthy(fullname)
                      THEN Some(rp.json.name) ELSE fullname,
                  ret |-> ret,
                  sent |-> g.sent \o
                           <<[kind |-> "post", at |-> n,
                              auth |-> Token_str(g.token[1]),
                              response |-> rp, ret |-> ret]>>]

\* post_comment
post_comment(tok, fullname, rt, rp, n) ==
    LET g == check_token_expiration(tok, rt, n)
    IN  IF g.ret = "raise"
        THEN [token |-> g.token, last_comment_fullname |-> fullname,
              ret |-> "raise", sent |-> g.sent]
        ELSE LET ret == IF rp.status = 200
                        THEN IF ~JsonOk(rp) THEN "False"
                             ELSE IF HasKey(rp.json, "name") THEN "True"
                             ELSE "raise"
                        ELSE "False"
             IN  [token |-> g.token,
                  last_comment_fullname |->
                      IF ret = "True" THEN Some(rp.json.name) ELSE fullname,
                  ret |-> ret,
                  sent |-> g.sent \o
                           <<[kind |-> "post", at |-> n,
                              auth |-> Token_str(g.token[1]),
                              response |-> rp, ret |-> ret]>>]

delete_comment_stale_header(tok, fullname, rt, rd, n) ==
    LET g == check_token_expiration(tok, rt, n)
    IN  IF g.ret = "raise"
        THEN [token |-> g.token, ret |-> "raise", sent |-> g.sent]
        ELSE LET ret == IF rd.status = 200 THEN "True" ELSE "False"
             IN  [token |-> g.token, ret |-> ret,
                  sent |-> g.sent \o
                           <<[kind |-> "delete", at |-> n,
                              auth |-> Token_str(tok[1]),
                              id |-> fullname,
                              response |-> rd, ret |-> ret]>>]

\* delete_comment
delete_comment(tok, fullname, rt, rd, n) ==
    LET g == check_token_expiration(tok, rt, n)
    IN  IF g.ret = "raise"
        THEN [token |-> g.token, ret |-> "raise", sent |-> g.sent]
        ELSE LET ret == IF rd.status = 200 THEN "True" ELSE "False"
             IN  [token |-> g.token, ret |-> ret,
                  sent |-> g.sent \o
                           <<[kind |-> "delete", at |-> n,
                              auth |-> Token_str(g.token[1]),
                              id |-> fullname,
                              response |-> rd, ret |-> ret]>>]

----------------------------------------------------------------------------
(* start() and run(): where the program goes after each call *)

start_runs_regardless(ret) ==
    IF ret = "raise" THEN "raised" ELSE "post"

\* start: `if self.authenticate_session(code=code): self.run()`
start_after_authenticate(ret) ==
    IF ret = "raise" THEN "raised"
    ELSE IF ret = "True" THEN "post" ELSE "done"

run_retries_post(ret) ==
    IF ret = "raise" THEN "raised"
    ELSE IF ret = "True" THEN "sleep_post" ELSE "post"

\* run: `if not self.post_comment(): break`, else the first sleep
run_after_post(ret) ==
    IF ret = "raise" THEN "raised"
    ELSE IF ret = "True" THEN "sleep_post" ELSE "done"

\* run: `if self.last_comment_fullname:` after the first sleep
run_after_sleep(fullname) ==
    IF Truthy(fullname) THEN "delete" ELSE "post"

\* run: `if not self.delete_comment(): break`, else the second sleep
run_after_delete(ret) ==
    IF ret = "raise" THEN "raised"
    ELSE IF ret = "True" THEN "sleep_delete" ELSE "done"

----------------------------------------------------------------------------
(* The program: PokemonGoFriendsBot(...).start() *)

\* __init__, at module load
Init ==
    /\ pc = "authorize"
    /\ now = Token_issued_at
    /\ token = None
    /\ last_comment_fullname = None
    /\ code = None
    /\ browser = << >>
    /\ log = << >>
    /\ result = None

\* start: self.authorize_application(), its value dropped
StartAuthorize ==
    /\ pc = "authorize"
    /\ \E r \in AuthorizeResponses :
          LET a == authorize_application(r, now)
          IN  /\ browser' = browser \o a.opened
              /\ log' = log \o a.sent
    /\ pc' = "prompt"
    /\ UNCHANGED <<now, token, last_comment_fullname, code, result>>

\* start: code = input(...), which blocks for as long as the operator takes
StartPrompt ==
    /\ pc = "prompt"
    /\ \E c \in Codes, d \in PromptDelays :
          /\ now' = now + d
          /\ code' = Some(c)
          /\ log' = Append(log, [kind |-> "prompt", at |-> now + d, code |-> c])
    /\ pc' = "exchange"
    /\ UNCHANGED <<token, last_comment_fullname, browser, result>>

\* start: self.authenticate_session(code=code), then run() or return
StartAuthenticate ==
    /\ pc = "exchange"
    /\ \E r \in TokenResponses :
          LET a == authenticate_session(token, code[1], FALSE, r, now)
          IN  /\ token' = a.token
              /\ log' = log \o a.sent
              /\ pc' = start_after_authenticate(a.ret)
    /\ UNCHANGED <<now, last_comment_fullname, code, browser, result>>

\* run: self.post_comment()
RunPost ==
    /\ pc = "post"
    /\ Len(log) < MaxLog
    /\ \E rt \in TokenResponses, rp \in PostResponses :
          LET p == post_comment(token, last_comment_fullname, rt, rp, now)
          IN  /\ token' = p.token
              /\ last_comment_fullname' = p.last_comment_fullname
              /\ log' = log \o p.sent
              /\ pc' = run_after_post(p.ret)
    /\ UNCHANGED <<now, code, browser, result>>

\* run: time.sleep(60 * 15 * 1), then the test of last_comment_fullname
RunSleepPost ==
    /\ pc = "sleep_post"
    /\ now' = now + SleepAfterPost
    /\ pc' = run_after_sleep(last_comment_fullname)
    /\ UNCHANGED <<token, last_comment_fullname, code, browser, log, result>>

\* run: self.delete_comment()
RunDelete ==
    /\ pc = "delete"
    /\ Len(log) < MaxLog
    /\ \E rt \in TokenResponses, rd \in DeleteResponses :
          LET d == delete_comment(token, last_comment_fullname, rt, rd, now)
          IN  /\ token' = d.token
              /\ log' = log \o d.sent
              /\ pc' = run_after_delete(d.ret)
    /\ UNCHANGED <<now, last_comment_fullname, code, browser, result>>

\* run: time.sleep(15 * 1 * 1), then the loop starts over
RunSleepDelete ==
    /\ pc = "sleep_delete"
    /\ now' = now + SleepAfterDelete
    /\ pc' = "post"
    /\ UNCHANGED <<token, last_comment_fullname, code, browser, log, result>>

Next ==
    \/ StartAuthorize
    \/ StartPrompt
    \/ StartAuthenticate
    \/ RunPost
    \/ RunSleepPost
    \/ RunDelete
    \/ RunSleepDelete

Spec == Init /\ [][Next]_vars

----------------------------------------------------------------------------
(* Token on its own: is_expired applied to tokens of every expiry and     *)
(* issue time of a window around the margin, at every time of the window  *)
(* (from one second before the issue time on).                             *)

TokenExpiresIns == (ExpiryMargin - 1) .. (ExpiryMargin + MaxElapsed)
TokenIssuedAts == 0 .. 2

InitToken ==
    /\ pc = "token"
    /\ \E E \in TokenExpiresIns, T \in TokenIssuedAts :
          /\ token = Some([Token("A1", PyInt(E), "edit submit", "R1")
                             EXCEPT !.issued_at = T])
          /\ now = T - 1
    /\ last_comment_fullname = None
    /\ code = None
    /\ browser = << >>
    /\ log = << >>
    /\ result = None

\* the clock advances by a second
TokenTick ==
    /\ pc = "token"
    /\ now - token[1].issued_at < MaxElapsed
    /\ now' = now + 1
    /\ result' = None
    /\ UNCHANGED <<pc, token, last_comment_fullname, code, browser, log>>

\* token.is_expired is read
TokenIsExpired ==
    /\ pc = "token"
    /\ result = None
    /\ result' = Some(IF is_expired(token[1], now) THEN "True" ELSE "False")
    /\ UNCHANGED <<pc, now, token, last_comment_fullname, code, browser, log>>

NextToken == TokenTick \/ TokenIsExpired

TokenSpec == InitToken /\ [][NextToken]_vars

----------------------------------------------------------------------------
(* Properties *)

\* C1: for a Token with integer expires_in = E and issued_at = T, read at
\* time now, is_expired is true exactly when now - T >= E - 60; it is false
\* at T + (E - 61) and true at T + (E - 60).
C1_IsExpiredBoundary ==
    (pc = "token" /\ result # None) =>
        LET E == token[1].expires_in.n
            T == token[1].issued_at
        IN  /\ (result[1] = "True") <=> (now - T >= E - 60)
            /\ (result[1] = "False") <=> (now - T < E - 60)
            /\ (now = T + (E - 61)) => (result[1] = "False")
            /\ (now = T + (E - 60)) => (result[1] = "True")

\* C1 witness: is_expired read exactly at the boundary T + (E - 60) of a
\* token that lives longer than the margin
C1_Witness ==
    /\ pc = "token"
    /\ result = Some("True")
    /\ token[1].expires_in.n > 60
    /\ now = token[1].issued_at + (token[1].expires_in.n - 60)

\* the calls of the log, by kind
IsExchange(e) == e.kind = "token" /\ e.data.grant_type = "authorization_code"
IsRefresh(e) == e.kind = "token" /\ e.data.grant_type = "refresh_token"
IsPost(e) == e.kind = "post"
IsDelete(e) == e.kind = "delete"
IsGuard(e) == e.kind = "guard"

\* C2: a refresh leaves refresh_token and token_type as they were; one that
\* completes overwrites access_token, expires_in and scope with the values of
\* the response and sets issued_at to the time of the refresh; and every
\* refresh request carries the refresh token that the authorization-code
\* exchange returned.
C2_RefreshStep ==
    \A i \in (Len(log) + 1) .. Len(log') :
        IsRefresh(log'[i]) =>
            /\ token # None /\ token' # None
            /\ token'[1].refresh_token = token[1].refresh_token
            /\ token'[1].token_type = token[1].token_type
            /\ (log'[i].ret = "True") =>
                  /\ token'[1].access_token = log'[i].response.json.access_token
                  /\ token'[1].expires_in = log'[i].response.json.expires_in
                  /\ token'[1].scope = log'[i].response.json.scope
                  /\ token'[1].issued_at = log'[i].at
                  /\ log'[i].at = now'
            /\ \E j \in 1 .. (i - 1) :
                  /\ IsExchange(log'[j])
                  /\ log'[j].ret = "True"
                  /\ log'[i].data.refresh_token =
                         log'[j].response.json.refresh_token

C2_RefreshKeepsRefreshToken == [][C2_RefreshStep]_vars

\* C2 witness: two refreshes have completed, the first of them on a response
\* that carried another refresh token than the one the token holds
C2_Witness ==
    \E i, j \in 1 .. Len(log) :
        /\ i < j
        /\ IsRefresh(log[i]) /\ log[i].ret = "True"
        /\ IsRefresh(log[j]) /\ log[j].ret = "True"
        /\ HasKey(log[i].response.json, "refresh_token")
        /\ log[i].response.json.refresh_token # log[i].data.refresh_token
        /\ token[1].access_token = log[j].response.json.access_token

\* C3: authenticate_session(code) never raises and returns a boolean: true
\* when the response has status 200 and a body that parses as JSON, with the
\* controller then holding a Token made of the fields of the response, and
\* false on any other status or on a body that does not parse.
C3_ExchangeStep ==
    \A i \in (Len(log) + 1) .. Len(log') :
        IsExchange(log'[i]) =>
            LET e == log'[i]
            IN  /\ e.ret \in {"True", "False"}
                /\ (e.response.status = 200 /\ JsonOk(e.response)) =>
                      /\ e.ret = "True"
                      /\ token' # None
                      /\ token'[1].access_token = e.response.json.access_token
                      /\ token'[1].expires_in = int(e.response.json.expires_in)
                      /\ token'[1].scope = e.response.json.scope
                      /\ token'[1].refresh_token =
                             e.response.json.refresh_token
                /\ (e.response.status # 200 \/ ~JsonOk(e.response)) =>
                      e.ret = "False"

C3_ExchangeReturnsBoolean == [][C3_ExchangeStep]_vars

\* C4: when authenticate_session returns false, which it does on a status
\* other than 200 and on a body that is not JSON, the token is what it was
\* before the call: absent for the exchange, every field the same for a
\* refresh.
C4_FailureStep ==
    \A i \in (Len(log) + 1) .. Len(log') :
        (log'[i].kind = "token" /\ log'[i].ret = "False") =>
            /\ token' = token
            /\ IsExchange(log'[i]) => token' = None
            /\ IsRefresh(log'[i]) => token'[1] = log'[i - 1].token
            /\ \/ log'[i].response.status # 200
               \/ ~JsonOk(log'[i].response)

C4_FailureLeavesToken == [][C4_FailureStep]_vars

\* C4 witness: a refresh answered by 200 with a body that is not JSON has
\* returned false, and so has one answered by another status
C4_Witness ==
    /\ \E i \in 1 .. Len(log) :
          /\ IsRefresh(log[i]) /\ log[i].ret = "False"
          /\ log[i].response.status = 200
    /\ \E i \in 1 .. Len(log) :
          /\ IsRefresh(log[i]) /\ log[i].ret = "False"
          /\ log[i].response.status # 200
    /\ token # None

\* C5: every delete request carries as its id the fullname that the most
\* recent successful post returned, and that id is a non-empty string: never
\* the fullname of an earlier post, never an absent one.
C5_DeleteCarriesLastFullname ==
    \A i \in 1 .. Len(log) :
        IsDelete(log[i]) =>
            /\ Truthy(log[i].id)
            /\ \E j \in 1 .. (i - 1) :
                  /\ IsPost(log[j]) /\ log[j].ret = "True"
                  /\ \A k \in (j + 1) .. (i - 1) :
                        ~(IsPost(log[k]) /\ log[k].ret = "True")
                  /\ log[i].id = Some(log[j].response.json.name)

\* C5 witness: a delete request was sent after a second successful post whose
\* fullname differs from that of the first
C5_Witness ==
    \E j1, j2, i \in 1 .. Len(log) :
        /\ j1 < j2 /\ j2 < i
        /\ IsPost(log[j1]) /\ log[j1].ret = "True"
        /\ IsPost(log[j2]) /\ log[j2].ret = "True"
        /\ log[j1].response.json.name # log[j2].response.json.name
        /\ Truthy(Some(log[j1].response.json.name))
        /\ IsDelete(log[i])

\* C6: a post_comment or delete_comment that returned false is the last call
\* the program makes: run() has returned, and no post, delete or token
\* request follows it.
C6_FailureTerminatesRun ==
    \A i \in 1 .. Len(log) :
        ((IsPost(log[i]) \/ IsDelete(log[i])) /\ log[i].ret = "False") =>
            /\ i = Len(log)
            /\ pc = "done"

\* C6 witness: the second post of a run failed with status 500 after a full
\* post / delete round
C6_Witness ==
    /\ pc = "done"
    /\ Len(log) > 0
    /\ IsPost(log[Len(log)]) /\ log[Len(log)].ret = "False"
    /\ log[Len(log)].response.status = 500
    /\ \E i \in 1 .. Len(log) : IsDelete(log[i]) /\ log[i].ret = "True"

\* C7: start() makes its calls in the order authorize request, code prompt,
\* code exchange, run loop; the exchange is made with the code that was
\* entered; run() is entered only when the exchange returned true, and when
\* it returned false start() has returned with no post or delete request.
C7_StartOrder ==
    /\ Len(log) >= 1 => log[1].kind = "authorize"
    /\ Len(log) >= 2 => log[2].kind = "prompt"
    /\ Len(log) >= 3 => /\ IsExchange(log[3])
                        /\ log[3].data.code = log[2].code
    /\ \A i \in 4 .. Len(log) :
          /\ IsGuard(log[i]) \/ IsRefresh(log[i]) \/ IsPost(log[i])
                \/ IsDelete(log[i])
          /\ log[3].ret = "True"
    /\ pc = "prompt" <=> Len(log) = 1
    /\ pc = "exchange" <=> Len(log) = 2
    /\ pc \in {"post", "sleep_post", "delete", "sleep_delete"} =>
          Len(log) >= 3 /\ log[3].ret = "True"
    /\ (Len(log) >= 3 /\ log[3].ret = "False") =>
          Len(log) = 3 /\ pc = "done"

\* C7 witness: the exchange returned false after a refused authorize request
\* and start() has returned
C7_Witness ==
    /\ pc = "done"
    /\ Len(log) = 3
    /\ log[1].ret = "False"
    /\ log[3].ret = "False"

\* C8: authorize_application returns true exactly when the authorize endpoint
\* answers 200 and then opens the browser on the URL of the response; on any
\* other status it returns false and opens nothing; it changes neither the
\* token nor last_comment_fullname.
C8_AuthorizeStep ==
    \A i \in (Len(log) + 1) .. Len(log') :
        log'[i].kind = "authorize" =>
            LET e == log'[i]
            IN  /\ e.ret \in {"True", "False"}
                /\ e.ret = "True" <=> e.response.status = 200
                /\ e.response.status = 200 =>
                      browser' = Append(browser, e.response.url)
                /\ e.response.status # 200 => browser' = browser
                /\ token' = token
                /\ last_comment_fullname' = last_comment_fullname

C8_AuthorizeReturn == [][C8_AuthorizeStep]_vars

\* C8 witness: the authorize endpoint answered 403, authorize_application
\* returned false and no browser was opened
C8_Witness ==
    /\ Len(log) >= 1
    /\ log[1].kind = "authorize"
    /\ log[1].response.status = 403
    /\ log[1].ret = "False"
    /\ browser = << >>

\* a token's expiry at time n, as the specification words it
Expired(t, n) == n - t.issued_at >= t.expires_in.n - 60

\* C9: every post and every delete request is preceded, in the same call, by
\* the expiry guard on the controller's token.  When the token is expired at
\* that moment exactly one refresh request lies between the guard and the
\* post / delete request; when it is not, no request lies between them and the
\* token is left as it was.  Refresh requests are sent by an expired guard
\* only.
C9_GuardStep ==
    /\ \A i \in (Len(log) + 1) .. Len(log') :
          (IsPost(log'[i]) \/ IsDelete(log'[i])) =>
              LET g == IF i >= 2 /\ IsRefresh(log'[i - 1]) THEN i - 2
                       ELSE i - 1
              IN  /\ g > Len(log)
                  /\ IsGuard(log'[g])
                  /\ log'[g].at = log'[i].at
                  /\ token # None /\ log'[g].token = token[1]
                  /\ Expired(log'[g].token, log'[g].at) =>
                        g = i - 2 /\ IsRefresh(log'[i - 1])
                  /\ ~Expired(log'[g].token, log'[g].at) =>
                        g = i - 1 /\ token' = token
    /\ \A i \in (Len(log) + 1) .. Len(log') :
          IsRefresh(log'[i]) =>
              /\ i - 1 > Len(log)
              /\ IsGuard(log'[i - 1])
              /\ Expired(log'[i - 1].token, log'[i - 1].at)
    /\ \A i \in (Len(log) + 1) .. Len(log') :
          (IsGuard(log'[i]) /\ log'[i].token.expires_in.type = "int") =>
              IF Expired(log'[i].token, log'[i].at)
              THEN i + 1 <= Len(log') /\ IsRefresh(log'[i + 1])
              ELSE /\ i + 1 = Len(log')
                   /\ IsPost(log'[i + 1]) \/ IsDelete(log'[i + 1])
                   /\ token' = token

C9_GuardBeforeRequest == [][C9_GuardStep]_vars

\* C9 witness: a post request was sent after a guard that found the token
\* expired and refreshed it, and a delete request after a guard that found it
\* valid
C9_Witness ==
    /\ \E i \in 3 .. Len(log) :
          /\ IsPost(log[i]) /\ IsRefresh(log[i - 1]) /\ IsGuard(log[i - 2])
          /\ log[i - 1].ret = "True"
          /\ log[i - 2].expired = "True"
    /\ \E i \in 2 .. Len(log) :
          /\ IsDelete(log[i]) /\ IsGuard(log[i - 1])
          /\ log[i - 1].expired = "False"

\* C10: when the guard finds the token expired and the refresh returns false,
\* the post or delete request is sent all the same, with the access token the
\* controller held before the call, which is expired at that moment; the token
\* is not changed, and run() goes on unless that post or delete itself fails.
C10_FailedRefreshStep ==
    \A i \in (Len(log) + 1) .. Len(log') :
        (IsRefresh(log'[i]) /\ log'[i].ret = "False") =>
            /\ i + 1 = Len(log')
            /\ IsPost(log'[i + 1]) \/ IsDelete(log'[i + 1])
            /\ log'[i + 1].at = log'[i].at
            /\ log'[i + 1].auth = "bearer " \o token[1].access_token
            /\ Expired(token[1], log'[i + 1].at)
            /\ token' = token
            /\ pc' \in {"done", "raised"} <=> log'[i + 1].ret # "True"
            /\ pc' = "done" <=> log'[i + 1].ret = "False"

C10_FailedRefreshNotEscalated == [][C10_FailedRefreshStep]_vars

\* C10 witness: a post request was sent with an expired token right after a
\* failed refresh, it succeeded, and run() goes on
C10_Witness ==
    /\ pc = "sleep_post"
    /\ Len(log) >= 3
    /\ IsPost(log[Len(log)]) /\ log[Len(log)].ret = "True"
    /\ IsRefresh(log[Len(log) - 1]) /\ log[Len(log) - 1].ret = "False"
    /\ Expired(token[1], now)
    /\ log[Len(log)].auth = Token_str(token[1])

\* C11: post and delete requests alternate strictly, a post first: between
\* two consecutive post requests there is exactly one delete request.
C11_StrictAlternation ==
    /\ \A i \in 1 .. Len(log) :
          IsDelete(log[i]) => \E j \in 1 .. (i - 1) : IsPost(log[j])
    /\ \A i, j \in 1 .. Len(log) :
          (/\ i < j
           /\ IsPost(log[i]) /\ IsPost(log[j])
           /\ \A k \in (i + 1) .. (j - 1) : ~IsPost(log[k])) =>
              Cardinality({k \in (i + 1) .. (j - 1) : IsDelete(log[k])}) = 1

\* run() was entered, and has ended by returning or by an exception
RunEntered == Len(log) >= 3 /\ IsExchange(log[3]) /\ log[3].ret = "True"
RunEnded == RunEntered /\ pc \in {"done", "raised"}

\* C12: run() ends only through a failed post or delete: when it has ended,
\* the last call was a post or a delete that did not succeed; as long as every
\* post and delete succeeds the loop goes on.
C12_ExitOnlyOnFailure ==
    RunEnded =>
        /\ IsPost(log[Len(log)]) \/ IsDelete(log[Len(log)])
        /\ log[Len(log)].ret # "True"

\* C13: the Authorization header of every post and delete request is
\* "bearer " followed by the access token of the controller's token when the
\* request is sent, which is the access token of the most recent exchange or
\* refresh that returned true; after a refresh by the guard it is the new
\* access token.
C13_HeaderStep ==
    \A i \in (Len(log) + 1) .. Len(log') :
        (IsPost(log'[i]) \/ IsDelete(log'[i])) =>
            /\ token' # None
            /\ log'[i].auth = "bearer " \o token'[1].access_token
            /\ \E j \in 1 .. (i - 1) :
                  /\ log'[j].kind = "token" /\ log'[j].ret = "True"
                  /\ \A k \in (j + 1) .. (i - 1) :
                        ~(log'[k].kind = "token" /\ log'[k].ret = "True")
                  /\ log'[i].auth =
                         "bearer " \o log'[j].response.json.access_token

C13_AuthorizationHeader == [][C13_HeaderStep]_vars

\* C13 witness: a delete request went out right after the guard had replaced
\* the access token, and carries the new one
C13_Witness ==
    \E i \in 3 .. Len(log) :
        /\ IsDelete(log[i])
        /\ IsRefresh(log[i - 1]) /\ log[i - 1].ret = "True"
        /\ log[i - 2].token.access_token
               # log[i - 1].response.json.access_token
        /\ log[i].auth = "bearer " \o log[i - 1].response.json.access_token

\* C14: the Token made by a successful authorization-code exchange at time t
\* has issued_at = t, so with expires_in > 60 the guard of the first post
\* finds it valid and sends no refresh, however late the exchange was made.
C14_IssuedAtExchange ==
    RunEntered =>
        /\ Len(log) = 3 => token[1].issued_at = log[3].at
        /\ (Len(log) >= 4 /\ log[3].response.json.expires_in.n > 60) =>
              /\ IsGuard(log[4])
              /\ log[4].token.issued_at = log[3].at
              /\ log[4].expired = "False"

\* C15: the token is present whenever the run loop is at work, that is
\* whenever check_token_expiration, post_comment, delete_comment or a refresh
\* runs; none of them finds it absent, and once the exchange has set it, it is
\* never absent again.
C15_TokenPresent ==
    /\ pc \in {"post", "sleep_post", "delete", "sleep_delete"} =>
          token # None /\ RunEntered
    /\ RunEntered => token # None
    /\ token # None => RunEntered
    /\ \A i \in 1 .. Len(log) :
          (IsGuard(log[i]) \/ IsRefresh(log[i]) \/ IsPost(log[i])
              \/ IsDelete(log[i])) => (RunEntered /\ i > 3)
    /\ (pc = "raised" /\ ~RunEntered) =>
          (Len(log) = 3 /\ log[3].ret = "raise")

\* C15 witness: the loop is about to delete, after a guard has refreshed the
\* token, and the token is present
C15_Witness ==
    /\ pc = "delete"
    /\ token # None
    /\ \E i \in 1 .. Len(log) : IsRefresh(log[i]) /\ log[i].ret = "True"

\* C16: at most one comment of the bot is on the server: a post request is
\* sent only after the comment of every earlier post that was answered 200
\* has been deleted by a delete request answered 200.
C16_AtMostOneComment ==
    \A i, j \in 1 .. Len(log) :
        (/\ i < j
         /\ IsPost(log[i]) /\ IsPost(log[j])
         /\ log[i].response.status = 200) =>
            \E k \in (i + 1) .. (j - 1) :
                /\ IsDelete(log[k])
                /\ log[k].response.status = 200

====
